---------------------------- MODULE Spec2Model ----------------------------
(***************************************************************************)
(* MQTT 3.1.1 packet decoder (src/codec/decode.rs).                        *)
(*                                                                         *)
(* Two entry points are modelled:                                          *)
(*   decode_variable_length(src)   the 1..4 byte "remaining length"        *)
(*   read_packet(src, header)      the dispatch on the packet type and the *)
(*                                 fourteen per-type body decoders          *)
(*                                                                         *)
(* A byte is a number in 0..255.  A Cursor<Bytes> is the pair (buf, pos):  *)
(* buf is the window, pos the number of bytes already consumed.  Every     *)
(* decoder is an operator from (buf, pos, ...) to an outcome record        *)
(*   [st, err, val, pos]                                                   *)
(* with st = "Ok" (val is the value), "Err" (err is the ParseError) or     *)
(* "Panic" (a read past the end of the window: Buf::get_* and              *)
(* Bytes::slice assert that enough bytes remain).                          *)
(***************************************************************************)
EXTENDS Integers, Sequences, FiniteSets, TLC

VARIABLES
    packet_type,   \* FixedHeader.packet_type
    packet_flags,  \* FixedHeader.packet_flags
    buf,           \* the bytes under the cursor (the slice, for decode_variable_length)
    pos,           \* Cursor::position()
    pc,            \* "start" before the call, "done" after it
    result,        \* what the call returned
    sent           \* the message the peer encoded: buf is a prefix of its bytes

vars == <<packet_type, packet_flags, buf, pos, pc, result, sent>>

-----------------------------------------------------------------------------
(* Outcomes *)

Ok(v, p)  == [st |-> "Ok",    err |-> "", val |-> v,    pos |-> p]
Err(e, p) == [st |-> "Err",   err |-> e,  val |-> <<>>, pos |-> p]
Panic(p)  == [st |-> "Panic", err |-> "", val |-> <<>>, pos |-> p]

Some(v) == [some |-> TRUE, v |-> v]
None    == [some |-> FALSE]

-----------------------------------------------------------------------------
(* Bit operations on a u8 *)

\* u8::trailing_zeros(): 8 for 0.
RECURSIVE trailing_zeros(_)
trailing_zeros(x) ==
    IF x = 0 THEN 8 ELSE IF x % 2 = 1 THEN 0 ELSE 1 + trailing_zeros(x \div 2)

\* a & b
RECURSIVE BitAnd(_, _)
BitAnd(a, b) ==
    IF a = 0 \/ b = 0 THEN 0
    ELSE (a % 2) * (b % 2) + 2 * BitAnd(a \div 2, b \div 2)

\* a >> n
Shr(a, n) == a \div 2 ^ n

\* check_flag!(flags, flag): (flags & flag.bits()) == flag.bits()
check_flag(flags, flag) == BitAnd(flags, flag) = flag

-----------------------------------------------------------------------------
(* decode_variable_length *)

\* The pass of scan (below) with each byte weighted by 256^idx instead of 128^idx.
RECURSIVE scan_shift8(_, _, _, _)
scan_shift8(src, idx, state, last) ==
    IF idx >= Len(src) THEN last
    ELSE IF ~state.more \/ idx > 3 THEN last
    ELSE LET x    == src[idx + 1]
             acc  == state.acc + BitAnd(x, 127) * 2 ^ (idx * 8)
             more == BitAnd(x, 128) # 0
         IN  scan_shift8(src, idx + 1, [acc |-> acc, more |-> more],
                  [some |-> TRUE, len |-> acc, consumed |-> idx + 1, more |-> more])

\* One pass of the closure given to scan(): idx is the 0-based index of the
\* next byte, state the closure's (accumulator, more) pair, last the item
\* yielded last (what .last() returns when the iterator ends).
RECURSIVE scan(_, _, _, _)
scan(src, idx, state, last) ==
    IF idx >= Len(src) THEN last
    ELSE IF ~state.more \/ idx > 3 THEN last
    ELSE LET x    == src[idx + 1]
             acc  == state.acc + BitAnd(x, 127) * 2 ^ (idx * 7)
             more == BitAnd(x, 128) # 0
         IN  scan(src, idx + 1, [acc |-> acc, more |-> more],
                  [some |-> TRUE, len |-> acc, consumed |-> idx + 1, more |-> more])

\* decode_variable_length with the limit check accepting a 4th continuation byte.
decode_variable_length_lax(src) ==
    LET l == scan(src, 0, [acc |-> 0, more |-> TRUE], [some |-> FALSE])
    IN  IF l.some
        THEN IF ~(~l.more \/ l.consumed <= 4)
             THEN Err("InvalidLength", 0)
             ELSE Ok(Some(<<l.len, l.consumed>>), 0)
        ELSE Ok(None, 0)

decode_variable_length(src) ==
    LET l == scan(src, 0, [acc |-> 0, more |-> TRUE], [some |-> FALSE])
    IN  IF l.some
        THEN IF ~(~l.more \/ l.consumed < 4)
             THEN Err("InvalidLength", 0)
             ELSE Ok(Some(<<l.len, l.consumed>>), 0)
        ELSE Ok(None, 0)

-----------------------------------------------------------------------------
(* Constants of the protocol (crate::proto, crate::packet, super) *)

CONNECT     == 1
CONNACK     == 2
PUBLISH     == 3
PUBACK      == 4
PUBREC      == 5
PUBREL      == 6
PUBCOMP     == 7
SUBSCRIBE   == 8
SUBACK      == 9
UNSUBSCRIBE == 10
UNSUBACK    == 11
PINGREQ     == 12
PINGRESP    == 13
DISCONNECT  == 14

DEFAULT_MQTT_LEVEL == 4
MQTT == <<77, 81, 84, 84>>      \* b"MQTT"

\* ConnectFlags bit masks and WILL_QOS_SHIFT
USERNAME       == 128
PASSWORD       == 64
WILL_RETAIN    == 32
WILL_QOS       == 24
WILL           == 4
CLEAN_SESSION  == 2
WILL_QOS_SHIFT == 3
\* ConnectAckFlags
SESSION_PRESENT == 1

\* QoS::from(u8) on a 2-bit value: 3 names no variant and is passed through.
QoSFrom(v) ==
    CASE v = 0 -> "AtMostOnce"
      [] v = 1 -> "AtLeastOnce"
      [] v = 2 -> "ExactlyOnce"
      [] OTHER -> "Invalid3"

\* ConnectCode::from(u8): the six defined codes, any other value a catch-all.
ConnectCodeFrom(v) ==
    CASE v = 0 -> "ConnectionAccepted"
      [] v = 1 -> "UnacceptableProtocolVersion"
      [] v = 2 -> "IdentifierRejected"
      [] v = 3 -> "ServiceUnavailable"
      [] v = 4 -> "BadUserNameOrPassword"
      [] v = 5 -> "NotAuthorized"
      [] OTHER -> "Reserved"

-----------------------------------------------------------------------------
(* The cursor: Buf for Cursor<Bytes> *)

remaining(b, p) == IF p >= Len(b) THEN 0 ELSE Len(b) - p

get_u8(b, p) ==
    IF remaining(b, p) < 1 THEN Panic(p) ELSE Ok(b[p + 1], p + 1)

get_u16_be(b, p) ==
    IF remaining(b, p) < 2 THEN Panic(p) ELSE Ok(b[p + 1] * 256 + b[p + 2], p + 2)

advance(b, p, n) ==
    IF remaining(b, p) < n THEN Panic(p) ELSE Ok(<<>>, p + n)

take(b, p, n) ==
    IF p + n > Len(b) THEN Panic(p) ELSE Ok(SubSeq(b, p + 1, p + n), p + n)

\* read_u16 without its length check.
read_u16_unchecked(b, p) == get_u16_be(b, p)

read_u16(b, p) ==
    IF ~(remaining(b, p) >= 2) THEN Err("InvalidLength", p) ELSE get_u16_be(b, p)

decode_length_bytes(b, p) ==
    LET len == read_u16(b, p)
    IN  IF len.st # "Ok" THEN len
        ELSE IF ~(remaining(b, len.pos) >= len.val) THEN Err("InvalidLength", len.pos)
        ELSE take(b, len.pos, len.val)

\* core::str::from_utf8 (behind String::try_from): is s[i..] well-formed UTF-8?
IsCont(x) == x >= 128 /\ x <= 191

RECURSIVE from_utf8(_, _)
from_utf8(s, i) ==
    IF i > Len(s) THEN TRUE
    ELSE LET x == s[i]
             has(n) == i + n <= Len(s)
         IN  IF x < 128 THEN from_utf8(s, i + 1)
             ELSE IF x >= 194 /\ x <= 223
                  THEN has(1) /\ IsCont(s[i + 1]) /\ from_utf8(s, i + 2)
             ELSE IF x = 224
                  THEN has(2) /\ s[i + 1] >= 160 /\ s[i + 1] <= 191
                       /\ IsCont(s[i + 2]) /\ from_utf8(s, i + 3)
             ELSE IF x = 237
                  THEN has(2) /\ s[i + 1] >= 128 /\ s[i + 1] <= 159
                       /\ IsCont(s[i + 2]) /\ from_utf8(s, i + 3)
             ELSE IF x >= 225 /\ x <= 239
                  THEN has(2) /\ IsCont(s[i + 1]) /\ IsCont(s[i + 2]) /\ from_utf8(s, i + 3)
             ELSE IF x = 240
                  THEN has(3) /\ s[i + 1] >= 144 /\ s[i + 1] <= 191
                       /\ IsCont(s[i + 2]) /\ IsCont(s[i + 3]) /\ from_utf8(s, i + 4)
             ELSE IF x >= 241 /\ x <= 243
                  THEN has(3) /\ IsCont(s[i + 1]) /\ IsCont(s[i + 2])
                       /\ IsCont(s[i + 3]) /\ from_utf8(s, i + 4)
             ELSE IF x = 244
                  THEN has(3) /\ s[i + 1] >= 128 /\ s[i + 1] <= 143
                       /\ IsCont(s[i + 2]) /\ IsCont(s[i + 3]) /\ from_utf8(s, i + 4)
             ELSE FALSE

decode_utf8_str(b, p) ==
    LET bytes == decode_length_bytes(b, p)
    IN  IF bytes.st # "Ok" THEN bytes
        ELSE IF ~from_utf8(bytes.val, 1) THEN Err("Utf8Error", bytes.pos)
        ELSE bytes

\* `if flag { Some(decode(src)?) } else { None }`
Optional(flag, r, p) ==
    IF flag
    THEN IF r.st = "Ok" THEN Ok(Some(r.val), r.pos) ELSE r
    ELSE Ok(None, p)

-----------------------------------------------------------------------------
(* Per-type decoders.  Each returns Ok(packet), Err(e) or Panic, with the   *)
(* cursor position it leaves behind.                                       *)

MISMATCH == "FixedHeaderReservedFlagsMismatch"

decode_connect_packet(b, p, flags) ==
    IF ~(trailing_zeros(flags) >= 4) THEN Err(MISMATCH, p)
    ELSE IF ~(remaining(b, p) >= 10) THEN Err("InvalidLength", p)
    ELSE
    LET len == get_u16_be(b, p) IN
    IF len.st # "Ok" THEN len
    ELSE IF len.val = 4 /\ remaining(b, len.pos) < 4 THEN Panic(len.pos)
    ELSE IF ~(len.val = 4 /\ SubSeq(b, len.pos + 1, len.pos + 4) = MQTT)
         THEN Err("InvalidProtocol", len.pos)
    ELSE
    LET name  == advance(b, len.pos, 4)
        level == get_u8(b, name.pos)
    IN
    IF name.st # "Ok" THEN name
    ELSE IF level.st # "Ok" THEN level
    ELSE IF ~(level.val = DEFAULT_MQTT_LEVEL) THEN Err("UnsupportedProtocolLevel", level.pos)
    ELSE
    LET cflags == get_u8(b, level.pos) IN
    IF cflags.st # "Ok" THEN cflags
    ELSE IF ~(BitAnd(cflags.val, 1) = 0) THEN Err("ConnectReservedFlagSet", cflags.pos)
    ELSE
    LET f          == cflags.val
        keep_alive == get_u16_be(b, cflags.pos)
        client_id  == decode_utf8_str(b, keep_alive.pos)
    IN
    IF keep_alive.st # "Ok" THEN keep_alive
    ELSE IF client_id.st # "Ok" THEN client_id
    ELSE IF ~(Len(client_id.val) # 0 \/ check_flag(f, CLEAN_SESSION))
         THEN Err("InvalidClientId", client_id.pos)
    ELSE
    LET topic == Optional(check_flag(f, WILL), decode_utf8_str(b, client_id.pos), client_id.pos) IN
    IF topic.st # "Ok" THEN topic
    ELSE
    LET message == Optional(check_flag(f, WILL), decode_length_bytes(b, topic.pos), topic.pos) IN
    IF message.st # "Ok" THEN message
    ELSE
    LET username == Optional(check_flag(f, USERNAME), decode_utf8_str(b, message.pos), message.pos) IN
    IF username.st # "Ok" THEN username
    ELSE
    LET password == Optional(check_flag(f, PASSWORD), decode_length_bytes(b, username.pos), username.pos) IN
    IF password.st # "Ok" THEN password
    ELSE
    LET last_will ==
            IF topic.val.some
            THEN Some([qos     |-> QoSFrom(Shr(BitAnd(f, WILL_QOS), WILL_QOS_SHIFT)),
                       retain  |-> check_flag(f, WILL_RETAIN),
                       topic   |-> topic.val.v,
                       message |-> message.val.v])
            ELSE None
    IN  Ok([variant       |-> "Connect",
            protocol      |-> level.val,
            clean_session |-> check_flag(f, CLEAN_SESSION),
            keep_alive    |-> keep_alive.val,
            client_id     |-> client_id.val,
            last_will     |-> last_will,
            username      |-> username.val,
            password      |-> password.val], password.pos)

decode_connect_ack_packet(b, p, flags) ==
    IF ~(trailing_zeros(flags) >= 4) THEN Err(MISMATCH, p)
    ELSE IF ~(remaining(b, p) >= 2) THEN Err("InvalidLength", p)
    ELSE
    LET aflags == get_u8(b, p) IN
    IF aflags.st # "Ok" THEN aflags
    ELSE IF ~(BitAnd(aflags.val, 254) = 0) THEN Err("ConnAckReservedFlagSet", aflags.pos)
    ELSE
    LET return_code == get_u8(b, aflags.pos) IN
    IF return_code.st # "Ok" THEN return_code
    ELSE Ok([variant         |-> "ConnectAck",
             session_present |-> check_flag(aflags.val, SESSION_PRESENT),
             return_code     |-> ConnectCodeFrom(return_code.val)], return_code.pos)

\* decode_publish_packet reading a packet id for QoS 0 and none otherwise.
decode_publish_packet_swapped(b, p, flags) ==
    LET topic == decode_utf8_str(b, p) IN
    IF topic.st # "Ok" THEN topic
    ELSE
    LET qos       == QoSFrom(Shr(BitAnd(flags, 6), 1))
        packet_id == Optional(qos = "AtMostOnce", read_u16(b, topic.pos), topic.pos)
    IN
    IF packet_id.st # "Ok" THEN packet_id
    ELSE
    LET len     == remaining(b, packet_id.pos)
        payload == take(b, packet_id.pos, len)
    IN
    IF payload.st # "Ok" THEN payload
    ELSE Ok([variant   |-> "Publish",
             dup       |-> BitAnd(flags, 8) = 8,
             qos       |-> qos,
             retain    |-> BitAnd(flags, 1) = 1,
             topic     |-> topic.val,
             packet_id |-> packet_id.val,
             payload   |-> payload.val], payload.pos)

decode_publish_packet(b, p, flags) ==
    LET topic == decode_utf8_str(b, p) IN
    IF topic.st # "Ok" THEN topic
    ELSE
    LET qos       == QoSFrom(Shr(BitAnd(flags, 6), 1))
        packet_id == Optional(qos # "AtMostOnce", read_u16(b, topic.pos), topic.pos)
    IN
    IF packet_id.st # "Ok" THEN packet_id
    ELSE
    LET len     == remaining(b, packet_id.pos)
        payload == take(b, packet_id.pos, len)
    IN
    IF payload.st # "Ok" THEN payload
    ELSE Ok([variant   |-> "Publish",
             dup       |-> BitAnd(flags, 8) = 8,
             qos       |-> qos,
             retain    |-> BitAnd(flags, 1) = 1,
             topic     |-> topic.val,
             packet_id |-> packet_id.val,
             payload   |-> payload.val], payload.pos)

\* `Ok(Packet::V { packet_id: read_u16(src)? })`
PacketIdOnly(variant, b, p) ==
    LET packet_id == read_u16(b, p)
    IN  IF packet_id.st # "Ok" THEN packet_id
        ELSE Ok([variant |-> variant, packet_id |-> packet_id.val], packet_id.pos)

decode_publish_ack_packet(b, p, flags) ==
    IF ~(trailing_zeros(flags) >= 4) THEN Err(MISMATCH, p)
    ELSE PacketIdOnly("PublishAck", b, p)

decode_publish_rec_packet(b, p, flags) ==
    IF ~(trailing_zeros(flags) >= 4) THEN Err(MISMATCH, p)
    ELSE PacketIdOnly("PublishAck", b, p)

\* decode_publish_rel_packet with the flag check of its neighbours.
decode_publish_rel_packet_zero_flags(b, p, flags) ==
    IF ~(trailing_zeros(flags) >= 4) THEN Err(MISMATCH, p)
    ELSE PacketIdOnly("PublishRelease", b, p)

decode_publish_rel_packet(b, p, flags) ==
    IF ~(flags = 2) THEN Err(MISMATCH, p)
    ELSE PacketIdOnly("PublishRelease", b, p)

decode_publish_comp_packet(b, p, flags) ==
    IF ~(trailing_zeros(flags) >= 4) THEN Err(MISMATCH, p)
    ELSE PacketIdOnly("PublishRelease", b, p)

\* The loop of decode_subscribe_packet pushing each entry at the front of the list.
RECURSIVE subscribe_loop_reversed(_, _, _)
subscribe_loop_reversed(b, p, topic_filters) ==
    IF ~(remaining(b, p) > 0) THEN Ok(topic_filters, p)
    ELSE
    LET topic == decode_utf8_str(b, p) IN
    IF topic.st # "Ok" THEN topic
    ELSE IF ~(remaining(b, topic.pos) >= 1) THEN Err("InvalidLength", topic.pos)
    ELSE
    LET byte == get_u8(b, topic.pos) IN
    IF byte.st # "Ok" THEN byte
    ELSE subscribe_loop_reversed(b, byte.pos,
             <<(<<topic.val, QoSFrom(BitAnd(byte.val, 3))>>)>> \o topic_filters)

\* The `while src.remaining() > 0` loop of decode_subscribe_packet.
RECURSIVE subscribe_loop(_, _, _)
subscribe_loop(b, p, topic_filters) ==
    IF ~(remaining(b, p) > 0) THEN Ok(topic_filters, p)
    ELSE
    LET topic == decode_utf8_str(b, p) IN
    IF topic.st # "Ok" THEN topic
    ELSE IF ~(remaining(b, topic.pos) >= 1) THEN Err("InvalidLength", topic.pos)
    ELSE
    LET byte == get_u8(b, topic.pos) IN
    IF byte.st # "Ok" THEN byte
    ELSE subscribe_loop(b, byte.pos,
             Append(topic_filters, <<topic.val, QoSFrom(BitAnd(byte.val, 3))>>))

decode_subscribe_packet(b, p, flags) ==
    IF ~(flags = 2) THEN Err(MISMATCH, p)
    ELSE
    LET packet_id == read_u16(b, p) IN
    IF packet_id.st # "Ok" THEN packet_id
    ELSE
    LET topic_filters == subscribe_loop(b, packet_id.pos, <<>>) IN
    IF topic_filters.st # "Ok" THEN topic_filters
    ELSE Ok([variant       |-> "Subscribe",
             packet_id     |-> packet_id.val,
             topic_filters |-> topic_filters.val], topic_filters.pos)

\* src.iter().map(..).collect(): one status per byte left in the window.
RECURSIVE subscribe_ack_iter(_, _, _)
subscribe_ack_iter(b, p, status) ==
    IF ~(remaining(b, p) > 0) THEN Ok(status, p)
    ELSE
    LET code == get_u8(b, p) IN
    IF code.st # "Ok" THEN code
    ELSE subscribe_ack_iter(b, code.pos,
             Append(status, IF code.val = 128
                            THEN <<"Failure">>
                            ELSE <<"Success", QoSFrom(BitAnd(code.val, 3))>>))

decode_subscribe_ack_packet(b, p, flags) ==
    IF ~(trailing_zeros(flags) >= 4) THEN Err(MISMATCH, p)
    ELSE
    LET packet_id == read_u16(b, p) IN
    IF packet_id.st # "Ok" THEN packet_id
    ELSE
    LET status == subscribe_ack_iter(b, packet_id.pos, <<>>) IN
    IF status.st # "Ok" THEN status
    ELSE Ok([variant   |-> "SubscribeAck",
             packet_id |-> packet_id.val,
             status    |-> status.val], status.pos)

\* The `while src.remaining() > 0` loop of decode_unsubscribe_packet.
RECURSIVE unsubscribe_loop(_, _, _)
unsubscribe_loop(b, p, topic_filters) ==
    IF ~(remaining(b, p) > 0) THEN Ok(topic_filters, p)
    ELSE
    LET topic == decode_utf8_str(b, p) IN
    IF topic.st # "Ok" THEN topic
    ELSE unsubscribe_loop(b, topic.pos, Append(topic_filters, topic.val))

decode_unsubscribe_packet(b, p, flags) ==
    IF ~(flags = 2) THEN Err(MISMATCH, p)
    ELSE
    LET packet_id == read_u16(b, p) IN
    IF packet_id.st # "Ok" THEN packet_id
    ELSE
    LET topic_filters == unsubscribe_loop(b, packet_id.pos, <<>>) IN
    IF topic_filters.st # "Ok" THEN topic_filters
    ELSE Ok([variant       |-> "Unsubscribe",
             packet_id     |-> packet_id.val,
             topic_filters |-> topic_filters.val], topic_filters.pos)

decode_unsubscribe_ack_packet(b, p, flags) ==
    IF ~(trailing_zeros(flags) >= 4) THEN Err(MISMATCH, p)
    ELSE PacketIdOnly("UnsubscribeAck", b, p)

\* The PINGREQ, PINGRESP and DISCONNECT arms of read_packet.
NoBody(variant, p, flags) ==
    IF ~(trailing_zeros(flags) >= 4) THEN Err(MISMATCH, p)
    ELSE Ok([variant |-> variant], p)

read_packet(b, p, ptype, flags) ==
    CASE ptype = CONNECT     -> decode_connect_packet(b, p, flags)
      [] ptype = CONNACK     -> decode_connect_ack_packet(b, p, flags)
      [] ptype = PUBLISH     -> decode_publish_packet(b, p, flags)
      [] ptype = PUBACK      -> decode_publish_ack_packet(b, p, flags)
      [] ptype = PUBREC      -> decode_publish_rec_packet(b, p, flags)
      [] ptype = PUBREL      -> decode_publish_rel_packet(b, p, flags)
      [] ptype = PUBCOMP     -> decode_publish_comp_packet(b, p, flags)
      [] ptype = SUBSCRIBE   -> decode_subscribe_packet(b, p, flags)
      [] ptype = SUBACK      -> decode_subscribe_ack_packet(b, p, flags)
      [] ptype = UNSUBSCRIBE -> decode_unsubscribe_packet(b, p, flags)
      [] ptype = UNSUBACK    -> decode_unsubscribe_ack_packet(b, p, flags)
      [] ptype = PINGREQ     -> NoBody("PingRequest", p, flags)
      [] ptype = PINGRESP    -> NoBody("PingResponse", p, flags)
      [] ptype = DISCONNECT  -> NoBody("Disconnect", p, flags)
      [] OTHER               -> Err("UnsupportedPacketType", p)

-----------------------------------------------------------------------------
(* Bounds and sample inputs *)

MaxSlice   == 5    \* longest slice handed to decode_variable_length
MaxRaw     == 3    \* longest unstructured window
MaxEntries == 2    \* most entries in a Subscribe, Unsubscribe or SubscribeAck
MaxPayload == 2    \* longest Publish payload

LenBytes    == {0, 1, 127, 128, 255}
RawBytes    == {0, 1, 3, 128}
PayloadBytes == {7, 200}
\* "", "t", "e-acute" (two bytes) and a lone continuation byte (not UTF-8)
Topics      == {<<>>, <<116>>, <<195, 169>>, <<128>>}
QosBytes    == {1, 3, 130}
StatusBytes == {0, 1, 2, 128, 131}
PacketIds   == {17185}                       \* 0x4321

RECURSIVE SeqsUpTo(_, _)
SeqsUpTo(S, n) ==
    IF n = 0 THEN {<<>>}
    ELSE LET shorter == SeqsUpTo(S, n - 1)
         IN  shorter \cup {Append(s, x) : s \in {t \in shorter : Len(t) = n - 1}, x \in S}

\* What a peer writes: a big-endian u16, a length-prefixed byte string.
U16(v) == <<v \div 256, v % 256>>
Str(x) == U16(Len(x)) \o x

RECURSIVE Concat(_)
Concat(ss) == IF Len(ss) = 0 THEN <<>> ELSE Head(ss) \o Concat(Tail(ss))

Message(shape, pid, entries, bytes) ==
    [shape |-> shape, pid |-> pid, entries |-> entries, bytes |-> bytes]

RawMessages ==
    {Message("raw", 0, <<>>, w) : w \in SeqsUpTo(RawBytes, MaxRaw)}

\* Subscribe: packet id, then (topic filter, requested QoS byte) entries
SubscribeEntry(e) == Str(e[1]) \o <<e[2]>>
SubscribeMessages ==
    {Message("subscribe", pid, es,
             U16(pid) \o Concat([i \in 1..Len(es) |-> SubscribeEntry(es[i])])) :
        pid \in PacketIds, es \in SeqsUpTo(Topics \X QosBytes, MaxEntries)}

\* Unsubscribe: packet id, then topic filters
UnsubscribeMessages ==
    {Message("unsubscribe", pid, es,
             U16(pid) \o Concat([i \in 1..Len(es) |-> Str(es[i])])) :
        pid \in PacketIds, es \in SeqsUpTo(Topics, MaxEntries)}

\* SubscribeAck: packet id, then one status byte per filter
SubscribeAckMessages ==
    {Message("suback", pid, es, U16(pid) \o es) :
        pid \in PacketIds, es \in SeqsUpTo(StatusBytes, MaxEntries)}

\* Publish: topic, packet id (QoS 1 and 2 only), payload
PublishMessages ==
    {Message("publish", 0, <<>>, Str(t) \o id \o pl) :
        t \in Topics, id \in {<<>>} \cup {U16(pid) : pid \in PacketIds},
        pl \in SeqsUpTo(PayloadBytes, MaxPayload)}

\* Connect: protocol name, level, connect flags, keep-alive, client id and
\* the fields the connect flags announce.
ConnectBody(head, level, cf, client, user) ==
    head \o <<level, cf>> \o U16(60) \o Str(client)
         \o (IF check_flag(cf, WILL) THEN Str(<<116>>) \o Str(<<109, 115>>) ELSE <<>>)
         \o (IF check_flag(cf, USERNAME) THEN Str(user) ELSE <<>>)
         \o (IF check_flag(cf, PASSWORD) THEN Str(<<112>>) ELSE <<>>)

GoodHead == U16(4) \o MQTT
Heads    == {GoodHead, U16(2) \o <<77, 81>>, U16(4) \o <<77, 81, 65, 65>>, U16(5) \o MQTT}

ConnectMessages ==
    {Message("connect", 0, <<>>, ConnectBody(h, lv, cf, <<99>>, <<117>>)) :
        h \in Heads, lv \in {3, 4}, cf \in {2, 255}}
    \cup
    {Message("connect", 0, <<>>, ConnectBody(GoodHead, DEFAULT_MQTT_LEVEL, cf, c, u)) :
        cf \in {0, 2, 22, 54, 66, 130, 192}, c \in {<<>>, <<99>>}, u \in {<<117>>, <<128>>}}

Messages ==
    RawMessages \cup SubscribeMessages \cup UnsubscribeMessages
        \cup SubscribeAckMessages \cup PublishMessages \cup ConnectMessages

\* The headers and windows a message is decoded under: an unstructured
\* window under every packet type; a structured one under its own packet
\* type, cut at every length; both under every value of the 4 flag bits.
TypesFor(m) ==
    CASE m.shape = "raw"         -> 0..15
      [] m.shape = "connect"     -> {CONNECT}
      [] m.shape = "publish"     -> {PUBLISH}
      [] m.shape = "subscribe"   -> {SUBSCRIBE}
      [] m.shape = "suback"      -> {SUBACK}
      [] m.shape = "unsubscribe" -> {UNSUBSCRIBE}

FlagsFor(m) == 0..15

WindowsFor(m) ==
    IF m.shape = "raw" THEN {m.bytes}
    ELSE {SubSeq(m.bytes, 1, n) : n \in 0..Len(m.bytes)}

NotCalled == [st |-> "NotCalled", err |-> "", val |-> <<>>, pos |-> 0]

-----------------------------------------------------------------------------
(* decode_variable_length on a slice *)

InitLen ==
    /\ packet_type = 0
    /\ packet_flags = 0
    /\ buf \in SeqsUpTo(LenBytes, MaxSlice)
    /\ pos = 0
    /\ pc = "start"
    /\ result = NotCalled
    /\ sent = Message("raw", 0, <<>>, buf)

DecodeVariableLength ==
    /\ pc = "start"
    /\ result' = decode_variable_length(buf)
    /\ pc' = "done"
    /\ UNCHANGED <<packet_type, packet_flags, buf, pos, sent>>

NextLen == DecodeVariableLength

SpecLen == InitLen /\ [][NextLen]_vars

-----------------------------------------------------------------------------
(* read_packet on a window *)

Init ==
    /\ sent \in Messages
    /\ packet_type \in TypesFor(sent)
    /\ packet_flags \in FlagsFor(sent)
    /\ buf \in WindowsFor(sent)
    /\ pos = 0
    /\ pc = "start"
    /\ result = NotCalled

ReadPacket ==
    /\ pc = "start"
    /\ result' = read_packet(buf, pos, packet_type, packet_flags)
    /\ pos' = result'.pos
    /\ pc' = "done"
    /\ UNCHANGED <<packet_type, packet_flags, buf, sent>>

Next == ReadPacket

Spec == Init /\ [][Next]_vars

-----------------------------------------------------------------------------
(* Claims about decode_variable_length (checked under SpecLen) *)

Continues(x) == x >= 128

\* The slice starts with a terminating chain of exactly k bytes.
ChainOf(s, k) ==
    /\ k <= Len(s)
    /\ \A i \in 1..(k - 1) : Continues(s[i])
    /\ ~Continues(s[k])

RECURSIVE Weighted(_, _)
Weighted(s, k) ==
    IF k = 0 THEN 0 ELSE Weighted(s, k - 1) + (s[k] % 128) * 128 ^ (k - 1)

\* C1: a slice of fewer than 4 bytes, each with the continuation bit set
\* (the empty slice included), decodes to Ok(None).
C1_ShortUnterminatedIsNone ==
    (pc = "done" /\ Len(buf) < 4 /\ \A i \in 1..Len(buf) : Continues(buf[i]))
        => (result.st = "Ok" /\ result.val = None)

\* C7: when the first k bytes (1 <= k <= 4) form a terminating chain the
\* result is Ok(Some((sum of (byte_i & 0x7F) * 128^i, k))), whatever follows.
C7_ValueAndConsumed ==
    pc = "done" =>
        \A k \in 1..4 :
            ChainOf(buf, k) =>
                /\ result.st = "Ok"
                /\ result.val = Some(<<Weighted(buf, k), k>>)

C7_Witness ==
    /\ pc = "done"
    /\ ChainOf(buf, 4)
    /\ Len(buf) > 4
    /\ buf[1] = 255
    /\ result.st = "Ok"
    /\ result.val = Some(<<Weighted(buf, 4), 4>>)

\* C8: the result is Err(InvalidLength) exactly when the slice has at least
\* 4 bytes and each of the first 4 has the continuation bit set.
C8_ErrorIffFourContinuations ==
    pc = "done" =>
        /\ (result.st = "Err") <=> (Len(buf) >= 4 /\ \A i \in 1..4 : Continues(buf[i]))
        /\ result.st = "Err" => result.err = "InvalidLength"
        /\ result.st # "Panic"

C8_Witness ==
    /\ pc = "done"
    /\ Len(buf) > 4
    /\ \A i \in 1..Len(buf) : Continues(buf[i])
    /\ result.st = "Err"
    /\ result.err = "InvalidLength"

-----------------------------------------------------------------------------
(* Claims about read_packet (checked under Spec) *)

Done        == pc = "done"
Failed(e)   == result.st = "Err" /\ result.err = e
BE(s, i)    == s[i] * 256 + s[i + 1]          \* the u16 at bytes i, i+1
QosBits(fl) == (fl \div 2) % 4
QosName(n)  == <<"AtMostOnce", "AtLeastOnce", "ExactlyOnce", "Invalid3">>[n + 1]

VariantOf(code) ==
    <<"Connect", "ConnectAck", "Publish", "PublishAck", "PublishReceived",
      "PublishRelease", "PublishComplete", "Subscribe", "SubscribeAck",
      "Unsubscribe", "UnsubscribeAck", "PingRequest", "PingResponse",
      "Disconnect">>[code]

ZeroFlagCodes  == {1, 2, 4, 5, 7, 9, 11, 12, 13, 14}
FixedFlagCodes == {6, 8, 10}
LegalFlags     == IF packet_type \in FixedFlagCodes THEN packet_flags = 2
                  ELSE IF packet_type \in ZeroFlagCodes THEN packet_flags = 0
                  ELSE TRUE

\* C2: every type code yields its own variant (the packet-id variants with
\* the big-endian u16 of the body), a code outside 1..14 UnsupportedPacketType.
C2_EachCodeItsOwnVariant ==
    Done =>
        /\ packet_type \notin 1..14 => Failed("UnsupportedPacketType")
        /\ (packet_type \in 1..14 /\ LegalFlags /\ result.st = "Ok") =>
              /\ result.val.variant = VariantOf(packet_type)
              /\ packet_type \in {4, 5, 6, 7, 11} => result.val.packet_id = BE(buf, 1)

\* C3: a Connect body with header flags 0, of any length that holds the
\* offending field, fails with InvalidProtocol (name length not 4, or name
\* not "MQTT"), else UnsupportedProtocolLevel (level not 4), else
\* ConnectReservedFlagSet (bit 0 of the connect flags set).
C3_ConnectFieldErrors ==
    (Done /\ packet_type = 1 /\ packet_flags = 0) =>
        LET nameOk == BE(buf, 1) = 4 /\ SubSeq(buf, 3, 6) = <<77, 81, 84, 84>>
        IN  /\ (Len(buf) >= 2 /\ BE(buf, 1) # 4) => Failed("InvalidProtocol")
            /\ (Len(buf) >= 6 /\ ~nameOk) => Failed("InvalidProtocol")
            /\ (Len(buf) >= 7 /\ nameOk /\ buf[7] # 4) => Failed("UnsupportedProtocolLevel")
            /\ (Len(buf) >= 8 /\ nameOk /\ buf[7] = 4 /\ buf[8] % 2 = 1)
                  => Failed("ConnectReservedFlagSet")

C5_PublishQos3Rejected ==
    (Done /\ packet_type = 3 /\ QosBits(packet_flags) = 3) => result.st = "Err"

\* C6: Publish with a well-formed topic: QoS 0 gives no packet id and the
\* payload is all that follows the topic; QoS 1 or 2 gives the big-endian
\* u16 after the topic as packet id and the rest as payload, or
\* InvalidLength when fewer than 2 bytes follow the topic; dup is bit 3,
\* retain bit 0, and on success the cursor is at the end of the window.
C6_PublishLayout ==
    (Done /\ packet_type = 3 /\ Len(buf) >= 2) =>
        LET tl    == BE(buf, 1)
            after == Len(buf) - 2 - tl
            q     == QosBits(packet_flags)
        IN  (after >= 0 /\ from_utf8(SubSeq(buf, 3, 2 + tl), 1)) =>
              /\ q = 0 =>
                    /\ result.st = "Ok"
                    /\ result.val.packet_id = None
                    /\ result.val.payload = SubSeq(buf, 3 + tl, Len(buf))
              /\ (q \in {1, 2} /\ after >= 2) =>
                    /\ result.st = "Ok"
                    /\ result.val.packet_id = Some(BE(buf, 3 + tl))
                    /\ result.val.payload = SubSeq(buf, 5 + tl, Len(buf))
              /\ (q \in {1, 2} /\ after < 2) => Failed("InvalidLength")
              /\ result.st = "Ok" =>
                    /\ result.val.variant = "Publish"
                    /\ result.val.topic = SubSeq(buf, 3, 2 + tl)
                    /\ result.val.qos = QosName(q)
                    /\ result.val.dup = (packet_flags \div 8 = 1)
                    /\ result.val.retain = (packet_flags % 2 = 1)
                    /\ pos = Len(buf)

C6_Witness ==
    /\ Done
    /\ packet_type = 3
    /\ packet_flags = 13
    /\ result.st = "Ok"
    /\ result.val.topic = <<195, 169>>
    /\ result.val.packet_id = Some(17185)
    /\ result.val.payload = <<7, 200>>
    /\ result.val.dup
    /\ pos = Len(buf)

\* Where the entries of the message in `sent` lie in its bytes.
EntryLen(e) ==
    CASE sent.shape = "subscribe"   -> 2 + Len(e[1]) + 1
      [] sent.shape = "unsubscribe" -> 2 + Len(e)
      [] sent.shape = "suback"      -> 1

RECURSIVE EntryEnd(_)
EntryEnd(k) == IF k = 0 THEN 2 ELSE EntryEnd(k - 1) + EntryLen(sent.entries[k])

EntryTopic(k) ==
    IF sent.shape = "subscribe" THEN sent.entries[k][1] ELSE sent.entries[k]

\* The entries that lie wholly in the window, and whether it ends on one.
WholeEntries == {k \in 1..Len(sent.entries) : EntryEnd(k) <= Len(buf)}
AtEntryEnd   == \E k \in 0..Len(sent.entries) : EntryEnd(k) = Len(buf)
\* The entries whose topic lies wholly in the window.
WholeTopics ==
    IF sent.shape = "suback" THEN {}
    ELSE {k \in 1..Len(sent.entries) :
             EntryEnd(k - 1) + 2 + Len(EntryTopic(k)) <= Len(buf)}

ExpectedEntry(k) ==
    LET e == sent.entries[k]
    IN  CASE sent.shape = "subscribe"   -> <<e[1], QosName(e[2] % 4)>>
          [] sent.shape = "unsubscribe" -> e
          [] sent.shape = "suback"      ->
                IF e = 128 THEN <<"Failure">> ELSE <<"Success", QosName(e % 4)>>

ExpectedList == [k \in 1..Cardinality(WholeEntries) |-> ExpectedEntry(k)]

DecodedList ==
    IF sent.shape = "suback" THEN result.val.status ELSE result.val.topic_filters

ListPacket ==
    /\ Done
    /\ sent.shape \in {"subscribe", "unsubscribe", "suback"}
    /\ LegalFlags
    /\ Len(buf) >= 2

\* A window that ends on an entry gives the entries in wire order.
ListInOrder ==
    (ListPacket /\ AtEntryEnd /\ \A k \in WholeTopics : from_utf8(EntryTopic(k), 1)) =>
        /\ result.st = "Ok"
        /\ result.val.packet_id = sent.pid
        /\ DecodedList = ExpectedList
        /\ pos = Len(buf)

\* C9 as stated: the list holds the entries in wire order, as many as the
\* window holds, and a Subscribe or Unsubscribe window that ends inside an
\* entry gives Err(InvalidLength).
C9_AsStated ==
    /\ ListInOrder
    /\ (ListPacket /\ ~AtEntryEnd) => Failed("InvalidLength")

\* C9 amended: the list holds the entries in wire order, as many as the
\* window holds; a Subscribe or Unsubscribe window that ends inside an entry
\* never gives a list: it gives Err(InvalidLength) when every topic filter
\* that lies wholly in the window is valid UTF-8 and the UTF-8 error otherwise.
C9_ListsAndCutEntries ==
    /\ ListInOrder
    /\ (ListPacket /\ ~AtEntryEnd) =>
          IF \A k \in WholeTopics : from_utf8(EntryTopic(k), 1)
          THEN Failed("InvalidLength")
          ELSE Failed("Utf8Error")

C9_Witness ==
    /\ ListPacket
    /\ sent.shape = "subscribe"
    /\ Len(sent.entries) = 2
    /\ sent.entries[1] # sent.entries[2]
    /\ buf = sent.bytes
    /\ result.st = "Ok"
    /\ Len(result.val.topic_filters) = 2
    /\ result.val.topic_filters = ExpectedList

=============================================================================
